---- MODULE Spec2Model ----
(***************************************************************************)
(* State-machine model of the JNI bridge in                                *)
(*   src/android/app/src/main/cpp/whisper-jni.cpp                          *)
(* Three entry points (initContext, transcribe, freeContext) are run by    *)
(* managed threads.  Every call of the bridge into the JVM or into the     *)
(* inference engine is one step of the calling thread, so that calls of    *)
(* different threads interleave between any two engine calls.              *)
(*                                                                         *)
(* The engine (whisper.h) and the managed caller are not part of the       *)
(* source file; they are modelled from section 6 and section 4.1 of the    *)
(* specification.  A context is a native address; the allocator may hand   *)
(* out again the address of a freed context.  An engine call on a context  *)
(* that is not live, or that races with a whisper_full in flight on the    *)
(* same context, is undefined behaviour: it is recorded as not valid and   *)
(* either reads whatever the memory holds or crashes the process.          *)
(*                                                                         *)
(* JNI allocation (GetStringUTFChars, GetFloatArrayElements, NewStringUTF) *)
(* is taken to succeed; the out-of-memory paths of the JVM are not         *)
(* modelled.                                                               *)
(***************************************************************************)
EXTENDS Integers, Sequences, FiniteSets, TLC

(* ------------------------------ bounds ------------------------------- *)
NumThreads == 2
NumCtx == 2
MaxSegs == 2

Threads == 1..NumThreads
\* native addresses of contexts; Null is nullptr / the zero sentinel
Ctx == 1..NumCtx
Null == 0

(* ------------------------------- text -------------------------------- *)
\* A text is a sequence of characters.  Four characters are the ones the
\* bridge trims, "\f" is white space the bridge does not trim.
TrimChars == <<" ", "\t", "\n", "\r">>
Chars == {" ", "\t", "\n", "\r", "\f", "a"}
EmptyText == <<>>

Npos == -1

\* std::string::find_first_not_of(set): 0-based index, or npos
FindFirstNotOf(text, set) ==
  LET hits == {k \in 0..(Len(text) - 1) : \A j \in 1..Len(set) : text[k + 1] # set[j]}
  IN  IF hits = {} THEN Npos ELSE CHOOSE k \in hits : \A m \in hits : k <= m

\* std::string::find_last_not_of(set): 0-based index, or npos
FindLastNotOf(text, set) ==
  LET hits == {k \in 0..(Len(text) - 1) : \A j \in 1..Len(set) : text[k + 1] # set[j]}
  IN  IF hits = {} THEN Npos ELSE CHOOSE k \in hits : \A m \in hits : k >= m

\* std::string::substr(pos, count), count clipped to the end of the string
Substr(text, pos, count) ==
  LET last == IF pos + count > Len(text) THEN Len(text) ELSE pos + count
  IN  SubSeq(text, pos + 1, last)

TrimOffByOne(text) ==
  LET start == FindFirstNotOf(text, TrimChars)
      end   == FindLastNotOf(text, TrimChars)
  IN  IF start # Npos THEN Substr(text, start, end - start) ELSE EmptyText

\* lines 74-81: trim leading/trailing whitespace
Trim(text) ==
  LET start == FindFirstNotOf(text, TrimChars)
      end   == FindLastNotOf(text, TrimChars)
  IN  IF start # Npos THEN Substr(text, start, end - start + 1) ELSE EmptyText

(* ---------------------- inputs and engine results -------------------- *)
\* full_get_segment_text yields a text or an absent (null) pointer
Seg(t) == [present |-> TRUE, text |-> t]
Absent == [present |-> FALSE, text |-> EmptyText]

\* what one segment can be in the transcript specification
SegOptions ==
  {Absent, Seg(EmptyText), Seg(<<" ", "a">>), Seg(<<"a", " ">>)}
    \cup {Seg(<<c>>) : c \in Chars}

RECURSIVE SeqsUpTo(_, _)
SeqsUpTo(S, n) ==
  IF n = 0 THEN {<<>>}
  ELSE LET shorter == SeqsUpTo(S, n - 1)
       IN  shorter \cup {Append(s, x) : s \in {r \in shorter : Len(r) = n - 1}, x \in S}

Scripts == SeqsUpTo(SegOptions, MaxSegs)

\* the results the engine draws from where the text is not what is examined:
\* no segment, or an absent segment followed by a text
EngineOutputs == { <<>>, << Absent, Seg(<<" ", "a", " ">>) >> }

\* whisper_full: 0 is success, anything else an engine-specific failure code
StatusCodes == {0, -1, 3}

Paths == {"model.bin", "missing.bin"}
Loadable == {"model.bin"}

\* the sample arrays a caller passes: the empty array and one of one sample
Audio == { <<>>, <<0>> }

VARIABLES
  live,      \* addresses of the contexts the engine holds (created, not freed)
  issued,    \* addresses initContext has ever returned
  segs,      \* segs[a]: the result segments of the context at address a
  outputs,   \* the results whisper_full can produce in this run
  pc,        \* pc[t]: where thread t is
  call,      \* call[t]: the entry point t is in, with its arguments
  ret,       \* ret[t]: the value the entry point returned
  trace,     \* trace[t]: the JNI, engine and log calls of t's current call
  borrowed,  \* borrowed[t]: managed resources t holds native access to
  local,     \* local[t]: the native locals of t's current call
  handle     \* handle[t]: the managed caller's handle field

vars == <<live, issued, segs, outputs, pc, call, ret, trace, borrowed, local, handle>>

NoCall == [op |-> "none", arg |-> Null, path |-> "", audio |-> <<>>]
NoRet == [kind |-> "none", long |-> 0, str |-> EmptyText]
RetLong(v) == [kind |-> "jlong", long |-> v, str |-> EmptyText]
RetString(s) == [kind |-> "jstring", long |-> 0, str |-> s]
RetVoid == [kind |-> "void", long |-> 0, str |-> EmptyText]
NoLocal == [ctx |-> Null, result |-> 0, nSegments |-> 0, i |-> 0, text |-> EmptyText]

\* one recorded call of the current entry point: the routine, the context it
\* was made on, the number and the segment it carried or yielded, the log
\* message, and whether it was a defined use of the engine
Ev(op, ctx, num, seg, msg, valid) ==
  [op |-> op, ctx |-> ctx, num |-> num, seg |-> seg, msg |-> msg, valid |-> valid]
Jni(op) == Ev(op, Null, 0, Absent, "", TRUE)
Log(op, msg, num) == Ev(op, Null, num, Absent, msg, TRUE)
Engine(op, ctx, num, seg, valid) == Ev(op, ctx, num, seg, "", valid)

Init ==
  /\ live = {}
  /\ issued = {}
  /\ segs = [a \in Ctx |-> <<>>]
  /\ outputs = EngineOutputs
  /\ pc = [t \in Threads |-> "idle"]
  /\ call = [t \in Threads |-> NoCall]
  /\ ret = [t \in Threads |-> NoRet]
  /\ trace = [t \in Threads |-> <<>>]
  /\ borrowed = [t \in Threads |-> {}]
  /\ local = [t \in Threads |-> NoLocal]
  /\ handle = [t \in Threads |-> Null]

(* ------------------------------ engine ------------------------------- *)
\* another thread is inside whisper_full on the context at address a
InFlightOthers(t, a) ==
  \E u \in Threads \ {t} : pc[u] = "t_infull" /\ local[u].ctx = a

\* a defined use of the engine: the context is live and no whisper_full of
\* another thread is running on it
Valid(t, a) == a \in live /\ ~InFlightOthers(t, a)

\* what an engine call does: it returns, or (undefined behaviour) crashes
Outcomes(valid) == IF valid THEN {"returns"} ELSE {"returns", "crashes"}

\* init_from_file_with_params: a context at an address not in use, or null
EngineInitResults(path) ==
  IF path \in Loadable /\ Ctx \ live # {} THEN Ctx \ live ELSE {Null}

\* full_n_segments: the number of stored segments; read from a context that
\* is not live (undefined behaviour) it is whatever the memory holds
StaleCounts == {0, 1}

EngineSegmentCounts(a) ==
  IF a \in live THEN {Len(segs[a])} ELSE StaleCounts

\* full_get_segment_text: the stored text or absent; read from a context that
\* is not live or past the end of the stored segments it is anything
StaleReads == {Absent, Seg(<<"a">>)}

EngineSegmentTexts(a, i) ==
  IF a \in live /\ i < Len(segs[a]) THEN {segs[a][i + 1]} ELSE StaleReads

\* the process is gone once an engine call crashed
Running == \A u \in Threads : pc[u] # "crashed"

\* the engine call recorded as event crashes the process instead of returning
Crash(t, event) ==
  /\ pc' = [pc EXCEPT ![t] = "crashed"]
  /\ trace' = [trace EXCEPT ![t] = Append(trace[t], event)]
  /\ UNCHANGED <<live, issued, segs, outputs, call, ret, borrowed, local, handle>>

(* ------------------------------ bridge ------------------------------- *)
\* a return statement: the value goes to the caller, the native frame is gone
Return(t, value, events) ==
  /\ ret' = [ret EXCEPT ![t] = value]
  /\ trace' = [trace EXCEPT ![t] = trace[t] \o events]
  /\ local' = [local EXCEPT ![t] = NoLocal]
  /\ pc' = [pc EXCEPT ![t] = "returned"]

\* ---- initContext, lines 12-30
\* lines 12-16: entered with modelPath
InitEnter(t, modelPath) ==
  /\ Running /\ pc[t] = "idle"
  /\ call' = [call EXCEPT ![t] =
                [op |-> "initContext", arg |-> Null, path |-> modelPath, audio |-> <<>>]]
  /\ borrowed' = [borrowed EXCEPT ![t] = borrowed[t] \cup {"path"}]
  /\ trace' = [trace EXCEPT ![t] =
                 <<Jni("GetStringUTFChars"), Log("LOGI", "Loading model from", 0)>>]
  /\ pc' = [pc EXCEPT ![t] = "i_engine"]
  /\ UNCHANGED <<live, issued, segs, outputs, ret, local, handle>>

\* lines 18-19
InitEngine(t) ==
  /\ Running /\ pc[t] = "i_engine"
  /\ \E r \in EngineInitResults(call[t].path) :
       /\ local' = [local EXCEPT ![t].ctx = r]
       /\ live' = IF r = Null THEN live ELSE live \cup {r}
       /\ segs' = IF r = Null THEN segs ELSE [segs EXCEPT ![r] = <<>>]
       /\ trace' = [trace EXCEPT ![t] = Append(trace[t],
                      Engine("whisper_init_from_file_with_params", Null, r, Absent, TRUE))]
  /\ pc' = [pc EXCEPT ![t] = "i_finish"]
  /\ UNCHANGED <<issued, outputs, call, ret, borrowed, handle>>

InitResultMinusOne(ctx) == IF ctx = Null THEN -1 ELSE ctx

\* lines 23-29: the value initContext returns for the engine's pointer
InitResult(ctx) == IF ctx = Null THEN 0 ELSE ctx

\* lines 21-29
InitFinish(t) ==
  /\ Running /\ pc[t] = "i_finish"
  /\ borrowed' = [borrowed EXCEPT ![t] = borrowed[t] \ {"path"}]
  /\ Return(t, RetLong(InitResult(local[t].ctx)),
            <<Jni("ReleaseStringUTFChars"),
              IF local[t].ctx = Null THEN Log("LOGE", "Failed to load model", 0)
                                     ELSE Log("LOGI", "Model loaded successfully", 0)>>)
  /\ issued' = IF InitResult(local[t].ctx) \in Ctx
               THEN issued \cup {InitResult(local[t].ctx)} ELSE issued
  /\ UNCHANGED <<live, segs, outputs, call, handle>>

\* ---- transcribe, lines 32-85
TranscribeCtxShared(contextPtr) ==
  IF live = {} THEN contextPtr ELSE CHOOSE a \in live : \A b \in live : a <= b

\* line 35: the context the call works on
TranscribeCtx(contextPtr) == contextPtr

TranscribeCtxIsNullNever(ctx) == FALSE

\* line 36
TranscribeCtxIsNull(ctx) == ctx = Null

\* lines 32-54: entered with contextPtr and audioData
TranscribeEnter(t, contextPtr, audioData) ==
  /\ Running /\ pc[t] = "idle"
  /\ call' = [call EXCEPT ![t] =
                [op |-> "transcribe", arg |-> contextPtr, path |-> "", audio |-> audioData]]
  /\ IF TranscribeCtxIsNull(TranscribeCtx(contextPtr))
     THEN /\ ret' = [ret EXCEPT ![t] = RetString(EmptyText)]
          /\ trace' = [trace EXCEPT ![t] = <<>>]
          /\ pc' = [pc EXCEPT ![t] = "returned"]
          /\ UNCHANGED <<borrowed, local>>
     ELSE /\ borrowed' = [borrowed EXCEPT ![t] = borrowed[t] \cup {"samples"}]
          /\ trace' = [trace EXCEPT ![t] =
                         <<Ev("GetArrayLength", Null, Len(audioData), Absent, "", TRUE),
                           Jni("GetFloatArrayElements"),
                           Log("LOGI", "Transcribing samples", Len(audioData))>>]
          /\ local' = [local EXCEPT ![t].ctx = TranscribeCtx(contextPtr)]
          /\ pc' = [pc EXCEPT ![t] = "t_full"]
          /\ UNCHANGED ret
  /\ UNCHANGED <<live, issued, segs, outputs, handle>>

\* line 56: whisper_full is entered
FullBegin(t) ==
  /\ Running /\ pc[t] = "t_full"
  /\ LET a == local[t].ctx
         event == Engine("whisper_full", a, Len(call[t].audio), Absent, Valid(t, a))
     IN  \E o \in Outcomes(Valid(t, a)) :
           IF o = "crashes" THEN Crash(t, event)
           ELSE /\ trace' = [trace EXCEPT ![t] = Append(trace[t], event)]
                /\ pc' = [pc EXCEPT ![t] = "t_infull"]
                /\ UNCHANGED <<live, issued, segs, outputs, call, ret, borrowed, local, handle>>

\* line 56: whisper_full returns its status; a successful run stores its
\* segments, a failed run leaves the stored ones or stores what it got to
FullEnd(t) ==
  /\ Running /\ pc[t] = "t_infull"
  /\ LET a == local[t].ctx
     IN  \E o \in Outcomes(Valid(t, a)), status \in StatusCodes, out \in outputs, kept \in BOOLEAN :
           LET event == Engine("whisper_full returned", a, status, Absent, Valid(t, a))
           IN  IF o = "crashes" THEN Crash(t, Engine("whisper_full crashed", a, 0, Absent, FALSE))
               ELSE /\ segs' = IF a \in live /\ (status = 0 \/ ~kept)
                               THEN [segs EXCEPT ![a] = out] ELSE segs
                    /\ local' = [local EXCEPT ![t].result = status]
                    /\ trace' = [trace EXCEPT ![t] = Append(trace[t], event)]
                    /\ pc' = [pc EXCEPT ![t] = "t_release"]
                    /\ UNCHANGED <<live, issued, outputs, call, ret, borrowed, handle>>

FullFailedNegativeOnly(result) == result < 0

\* line 60
FullFailed(result) == result # 0

TrReleaseOnSuccessOnly(t) ==
  /\ Running /\ pc[t] = "t_release"
  /\ IF FullFailed(local[t].result)
     THEN /\ Return(t, RetString(EmptyText),
                    <<Log("LOGE", "Transcription failed with code", local[t].result)>>)
          /\ UNCHANGED borrowed
     ELSE /\ borrowed' = [borrowed EXCEPT ![t] = borrowed[t] \ {"samples"}]
          /\ trace' = [trace EXCEPT ![t] = Append(trace[t], Jni("ReleaseFloatArrayElements"))]
          /\ pc' = [pc EXCEPT ![t] = "t_nseg"]
          /\ UNCHANGED <<ret, local>>
  /\ UNCHANGED <<live, issued, segs, outputs, call, handle>>

TrReleaseFreesOnFailure(t) ==
  /\ Running /\ pc[t] = "t_release"
  /\ borrowed' = [borrowed EXCEPT ![t] = borrowed[t] \ {"samples"}]
  /\ IF FullFailed(local[t].result)
     THEN /\ Return(t, RetString(EmptyText),
                    <<Jni("ReleaseFloatArrayElements"),
                      Log("LOGE", "Transcription failed with code", local[t].result),
                      Engine("whisper_free", local[t].ctx, 0, Absent, Valid(t, local[t].ctx))>>)
          /\ live' = live \ {local[t].ctx}
     ELSE /\ trace' = [trace EXCEPT ![t] = Append(trace[t], Jni("ReleaseFloatArrayElements"))]
          /\ pc' = [pc EXCEPT ![t] = "t_nseg"]
          /\ UNCHANGED <<ret, local, live>>
  /\ UNCHANGED <<issued, segs, outputs, call, handle>>

\* lines 58-63
TrRelease(t) ==
  /\ Running /\ pc[t] = "t_release"
  /\ borrowed' = [borrowed EXCEPT ![t] = borrowed[t] \ {"samples"}]
  /\ IF FullFailed(local[t].result)
     THEN Return(t, RetString(EmptyText),
                 <<Jni("ReleaseFloatArrayElements"),
                   Log("LOGE", "Transcription failed with code", local[t].result)>>)
     ELSE /\ trace' = [trace EXCEPT ![t] = Append(trace[t], Jni("ReleaseFloatArrayElements"))]
          /\ pc' = [pc EXCEPT ![t] = "t_nseg"]
          /\ UNCHANGED <<ret, local>>
  /\ UNCHANGED <<live, issued, segs, outputs, call, handle>>

\* lines 65-66
TrNSegments(t) ==
  /\ Running /\ pc[t] = "t_nseg"
  /\ LET a == local[t].ctx
     IN  \E o \in Outcomes(Valid(t, a)), n \in EngineSegmentCounts(a) :
           LET event == Engine("whisper_full_n_segments", a, n, Absent, Valid(t, a))
           IN  IF o = "crashes"
               THEN Crash(t, Engine("whisper_full_n_segments", a, 0, Absent, FALSE))
               ELSE /\ local' = [local EXCEPT ![t].text = EmptyText,
                                              ![t].nSegments = n, ![t].i = 0]
                    /\ trace' = [trace EXCEPT ![t] = Append(trace[t], event)]
                    /\ pc' = [pc EXCEPT ![t] = "t_seg"]
                    /\ UNCHANGED <<live, issued, segs, outputs, call, ret, borrowed, handle>>

\* lines 67-72: one pass of the loop
TrSegment(t) ==
  /\ Running /\ pc[t] = "t_seg"
  /\ local[t].i < local[t].nSegments
  /\ LET a == local[t].ctx
         i == local[t].i
         valid == Valid(t, a) /\ i < Len(segs[a])
     IN  \E o \in Outcomes(valid), segText \in EngineSegmentTexts(a, i) :
           LET event == Engine("whisper_full_get_segment_text", a, i, segText, valid)
           IN  IF o = "crashes"
               THEN Crash(t, Engine("whisper_full_get_segment_text", a, i, Absent, FALSE))
               ELSE /\ local' = [local EXCEPT
                                   ![t].text = IF segText.present
                                               THEN local[t].text \o segText.text
                                               ELSE local[t].text,
                                   ![t].i = i + 1]
                    /\ trace' = [trace EXCEPT ![t] = Append(trace[t], event)]
                    /\ UNCHANGED <<live, issued, segs, outputs, pc, call, ret, borrowed, handle>>

\* line 67 (the loop ends) and lines 74-84
TrFinish(t) ==
  /\ Running /\ pc[t] = "t_seg"
  /\ ~(local[t].i < local[t].nSegments)
  /\ Return(t, RetString(Trim(local[t].text)),
            <<Log("LOGI", "Transcription result", 0)>>)
  /\ UNCHANGED <<live, issued, segs, outputs, call, borrowed, handle>>

\* ---- freeContext, lines 87-95
FreeCtxNonNullAlways(ctx) == TRUE

FreeCtxNonNullAndLive(ctx) == ctx # Null /\ ctx \in live

FreeCtxNonNullInverted(ctx) == ctx = Null

\* line 91
FreeCtxNonNull(ctx) == ctx # Null

\* lines 87-91: entered with contextPtr
FreeEnter(t, contextPtr) ==
  /\ Running /\ pc[t] = "idle"
  /\ call' = [call EXCEPT ![t] =
                [op |-> "freeContext", arg |-> contextPtr, path |-> "", audio |-> <<>>]]
  /\ trace' = [trace EXCEPT ![t] = <<>>]
  /\ IF FreeCtxNonNull(contextPtr)
     THEN /\ local' = [local EXCEPT ![t].ctx = contextPtr]
          /\ pc' = [pc EXCEPT ![t] = "f_engine"]
          /\ UNCHANGED ret
     ELSE /\ ret' = [ret EXCEPT ![t] = RetVoid]
          /\ pc' = [pc EXCEPT ![t] = "returned"]
          /\ UNCHANGED local
  /\ UNCHANGED <<live, issued, segs, outputs, borrowed, handle>>

\* lines 92-93
FreeEngine(t) ==
  /\ Running /\ pc[t] = "f_engine"
  /\ LET a == local[t].ctx
         event == Engine("whisper_free", a, 0, Absent, Valid(t, a))
     IN  \E o \in Outcomes(Valid(t, a)) :
           IF o = "crashes" THEN Crash(t, event)
           ELSE /\ live' = live \ {a}
                /\ segs' = IF a \in live THEN [segs EXCEPT ![a] = <<>>] ELSE segs
                /\ Return(t, RetVoid, <<event, Log("LOGI", "Context freed", 0)>>)
                /\ UNCHANGED <<issued, outputs, call, borrowed, handle>>

(* --------------------------- managed caller -------------------------- *)
\* The caller of section 4.1.  It stores what initContext returns in its
\* handle field and zeroes the field after freeContext.  A disciplined caller
\* calls initContext only while the field is zero and passes only the field.
\* Any other caller passes zero or any value initContext has ever returned,
\* stale or held by another thread; such callers make their calls one at a
\* time (concurrent calls on one handle are out of contract, section 5).
HandleChoices(t, disciplined) ==
  IF disciplined THEN {handle[t]} ELSE {Null} \cup issued

MayCall(t, disciplined) ==
  disciplined \/ \A u \in Threads \ {t} : pc[u] = "idle"

MayInit(t, disciplined) ==
  MayCall(t, disciplined) /\ (disciplined => handle[t] = Null)

\* the call has returned: the caller takes the result and goes on
Resume(t) ==
  /\ Running /\ pc[t] = "returned"
  /\ handle' = [handle EXCEPT ![t] =
                  IF call[t].op = "initContext" THEN ret[t].long
                  ELSE IF call[t].op = "freeContext" THEN Null
                  ELSE handle[t]]
  /\ pc' = [pc EXCEPT ![t] = "idle"]
  /\ call' = [call EXCEPT ![t] = NoCall]
  /\ ret' = [ret EXCEPT ![t] = NoRet]
  /\ trace' = [trace EXCEPT ![t] = <<>>]
  /\ UNCHANGED <<live, issued, segs, outputs, borrowed, local>>

(* --------------------------- specifications -------------------------- *)
Step(t, disciplined) ==
  \/ \E p \in Paths : MayInit(t, disciplined) /\ InitEnter(t, p)
  \/ InitEngine(t)
  \/ InitFinish(t)
  \/ \E h \in HandleChoices(t, disciplined), audio \in Audio :
       MayCall(t, disciplined) /\ TranscribeEnter(t, h, audio)
  \/ FullBegin(t)
  \/ FullEnd(t)
  \/ TrRelease(t)
  \/ TrNSegments(t)
  \/ TrSegment(t)
  \/ TrFinish(t)
  \/ \E h \in HandleChoices(t, disciplined) :
       MayCall(t, disciplined) /\ FreeEnter(t, h)
  \/ FreeEngine(t)
  \/ Resume(t)

\* any handle values, stale and shared ones included, one call at a time
Next == \E t \in Threads : Step(t, FALSE)

Spec == Init /\ [][Next]_vars

\* disciplined callers, one handle field and one thread each, running
\* concurrently
NextDisciplined == \E t \in Threads : Step(t, TRUE)

SpecDisciplined == Init /\ [][NextDisciplined]_vars

\* one disciplined caller; the result the engine produces is drawn at the
\* start from all sequences of at most MaxSegs segments
InitTranscript ==
  /\ outputs \in {{s} : s \in Scripts}
  /\ live = {}
  /\ issued = {}
  /\ segs = [a \in Ctx |-> <<>>]
  /\ pc = [t \in Threads |-> "idle"]
  /\ call = [t \in Threads |-> NoCall]
  /\ ret = [t \in Threads |-> NoRet]
  /\ trace = [t \in Threads |-> <<>>]
  /\ borrowed = [t \in Threads |-> {}]
  /\ local = [t \in Threads |-> NoLocal]
  /\ handle = [t \in Threads |-> Null]

NextTranscript == \E t \in {1} : Step(t, TRUE)

SpecTranscript == InitTranscript /\ [][NextTranscript]_vars

(* ------------------------- reading the record ------------------------ *)
Ops(t) == [k \in 1..Len(trace[t]) |-> trace[t][k].op]

Positions(t, op) == {k \in 1..Len(trace[t]) : trace[t][k].op = op}

EngineOps ==
  {"whisper_init_from_file_with_params", "whisper_full", "whisper_full returned",
   "whisper_full crashed", "whisper_full_n_segments",
   "whisper_full_get_segment_text", "whisper_free"}

AccessorOps == {"whisper_full_n_segments", "whisper_full_get_segment_text"}

EnginePositions(t) == {k \in 1..Len(trace[t]) : trace[t][k].op \in EngineOps}

InCall(t, op) == call[t].op = op

Returned(t, op) == call[t].op = op /\ pc[t] = "returned"

\* whisper_full has returned status in t's current call
FullReturned(t, status) ==
  \E k \in 1..Len(trace[t]) :
    trace[t][k].op = "whisper_full returned" /\ trace[t][k].num = status

FullReturnedFailure(t) ==
  \E k \in 1..Len(trace[t]) :
    trace[t][k].op = "whisper_full returned" /\ trace[t][k].num # 0

(* ------------------------------- claims ------------------------------ *)

\* C1: a transcribe call whose handle is the zero sentinel returns the empty
\* string, whatever the audio array, and makes no engine call and no
\* acquisition of the array: its record stays empty and nothing is borrowed.
C1_ZeroHandleTranscribe ==
  \A t \in Threads :
    (InCall(t, "transcribe") /\ call[t].arg = Null) =>
      /\ pc[t] = "returned"
      /\ ret[t] = RetString(EmptyText)
      /\ trace[t] = <<>>
      /\ borrowed[t] = {}

\* two zero-handle calls have returned, one with the empty array and one with
\* a non-empty array
C1_Witness ==
  \E t \in Threads, u \in Threads :
    /\ Returned(t, "transcribe") /\ call[t].arg = Null /\ call[t].audio = <<>>
    /\ Returned(u, "transcribe") /\ call[u].arg = Null /\ call[u].audio # <<>>

\* C2: initContext returns zero exactly when the engine's constructor
\* reported null (in particular for every path that is not loadable) and
\* returns the engine's non-zero context otherwise; the result is always a
\* jlong value.
C2_InitResult ==
  \A t \in Threads :
    Returned(t, "initContext") =>
      /\ Len(trace[t]) >= 3
      /\ trace[t][3].op = "whisper_init_from_file_with_params"
      /\ ret[t].kind = "jlong"
      /\ (trace[t][3].num = Null => ret[t].long = 0)
      /\ (trace[t][3].num # Null =>
            /\ ret[t].long = trace[t][3].num
            /\ ret[t].long # 0
            /\ ret[t].long \in live)
      /\ (call[t].path \notin Loadable => ret[t].long = 0)

\* initContext has returned zero for a path that is not loadable, while an
\* earlier call has returned a context that a caller holds
C2_Witness ==
  \E t \in Threads, u \in Threads :
    /\ Returned(t, "initContext")
    /\ call[t].path \notin Loadable
    /\ ret[t].long = 0
    /\ handle[u] # Null /\ handle[u] \in live

\* C3: once whisper_full has returned a non-zero status the call consults no
\* segment accessor and returns the empty string, whatever segments the
\* context holds.
C3_FailureReturnsEmpty ==
  \A t \in Threads :
    (InCall(t, "transcribe") /\ FullReturnedFailure(t)) =>
      /\ pc[t] \in {"t_release", "returned"}
      /\ \A k \in 1..Len(trace[t]) : trace[t][k].op \notin AccessorOps
      /\ (pc[t] = "returned" => ret[t] = RetString(EmptyText))

\* a call has returned after a positive failure status on a live context that
\* holds a segment with text
C3_Witness ==
  \E t \in Threads :
    /\ Returned(t, "transcribe")
    /\ FullReturned(t, 3)
    /\ call[t].arg \in live
    /\ \E k \in 1..Len(segs[call[t].arg]) : segs[call[t].arg][k].text # EmptyText

\* the transcript as the specification words it
IsSpace(c) == c \in {" ", "\t", "\n", "\r"}

RECURSIVE ConcatPresent(_)
ConcatPresent(ss) ==
  IF ss = <<>> THEN EmptyText
  ELSE (IF Head(ss).present THEN Head(ss).text ELSE EmptyText) \o ConcatPresent(Tail(ss))

RECURSIVE DropLeadingSpace(_)
DropLeadingSpace(text) ==
  IF text # <<>> /\ IsSpace(Head(text)) THEN DropLeadingSpace(Tail(text)) ELSE text

RECURSIVE DropTrailingSpace(_)
DropTrailingSpace(text) ==
  IF text # <<>> /\ IsSpace(text[Len(text)])
  THEN DropTrailingSpace(SubSeq(text, 1, Len(text) - 1)) ELSE text

Transcript(ss) == DropTrailingSpace(DropLeadingSpace(ConcatPresent(ss)))

\* the segments full_get_segment_text yielded, in the order of the calls
RECURSIVE SegmentTextsOf(_)
SegmentTextsOf(tr) ==
  IF tr = <<>> THEN <<>>
  ELSE (IF Head(tr).op = "whisper_full_get_segment_text" THEN <<Head(tr).seg>> ELSE <<>>)
       \o SegmentTextsOf(Tail(tr))

\* C4: after whisper_full returned 0 the call reads every segment of the
\* context in index order and returns the concatenation of the texts that are
\* present, without separator, with the leading and the trailing run of
\* space, tab, newline and carriage return removed and nothing else; that is
\* the empty string when there is no segment or only such characters.
C4_Transcript ==
  \A t \in Threads :
    (Returned(t, "transcribe") /\ FullReturned(t, 0)) =>
      LET read == SegmentTextsOf(trace[t])
          at   == Positions(t, "whisper_full_get_segment_text")
      IN  /\ read = segs[call[t].arg]
          /\ \A k \in at : \A m \in at : k < m => trace[t][k].num < trace[t][m].num
          /\ ret[t] = RetString(Transcript(read))
          /\ ((\A k \in 1..Len(ConcatPresent(read)) : IsSpace(ConcatPresent(read)[k]))
                => ret[t].str = EmptyText)

\* two segments " a" and " a": the space between them is kept, the leading
\* one is removed
C4_Witness ==
  \E t \in Threads :
    /\ Returned(t, "transcribe") /\ FullReturned(t, 0)
    /\ SegmentTextsOf(trace[t]) = << Seg(<<" ", "a">>), Seg(<<" ", "a">>) >>
    /\ ret[t].str = <<"a", " ", "a">>

\* what a freeContext call has done: nothing for zero, whisper_free and the
\* log line for a non-zero handle
C5_State ==
  \A t \in Threads :
    InCall(t, "freeContext") =>
      IF call[t].arg = Null
      THEN pc[t] = "returned" /\ trace[t] = <<>> /\ ret[t] = RetVoid
      ELSE pc[t] = "returned" =>
             /\ Ops(t) = <<"whisper_free", "LOGI">>
             /\ trace[t][1].ctx = call[t].arg
             /\ trace[t][2].msg = "Context freed"
             /\ call[t].arg \notin live

\* entering freeContext with zero leaves the engine, the borrows, the
\* locals and the handles as they are
C5_Frame ==
  \A t \in Threads :
    (pc[t] = "idle" /\ call'[t].op = "freeContext" /\ call'[t].arg = Null) =>
      /\ live' = live /\ segs' = segs /\ issued' = issued
      /\ handle' = handle /\ borrowed' = borrowed /\ local' = local

\* C5: freeContext with the zero sentinel returns at once with an empty
\* record (no engine routine, no log line) and changes nothing of the engine,
\* the borrows or the caller's handles; with a non-zero handle it has, when it
\* returns, called whisper_free once on that context and then logged
\* "Context freed".
C5_FreeContext == []C5_State /\ [][C5_Frame]_vars

\* freeContext(0) has returned while a context is live
C5_Witness ==
  \E t \in Threads :
    Returned(t, "freeContext") /\ call[t].arg = Null /\ live # {}

\* C6: no borrow is outstanding at any return; in initContext the path
\* string is acquired once before and released once after the engine's
\* constructor; in transcribe with a non-zero handle the array is acquired
\* once before whisper_full and released once after whisper_full returned and
\* before any segment accessor, on the failure path as on the success path.
C6_Borrows ==
  \A t \in Threads :
    /\ pc[t] \in {"idle", "returned"} => borrowed[t] = {}
    /\ pc[t] \in {"i_engine", "i_finish"} <=> borrowed[t] = {"path"}
    /\ pc[t] \in {"t_full", "t_infull", "t_release"} => borrowed[t] = {"samples"}
    /\ Returned(t, "initContext") =>
         /\ Positions(t, "GetStringUTFChars") = {1}
         /\ Positions(t, "whisper_init_from_file_with_params") = {3}
         /\ Positions(t, "ReleaseStringUTFChars") = {4}
    /\ (Returned(t, "transcribe") /\ call[t].arg # Null) =>
         /\ Positions(t, "GetFloatArrayElements") = {2}
         /\ Positions(t, "whisper_full") = {4}
         /\ Positions(t, "whisper_full returned") = {5}
         /\ Positions(t, "ReleaseFloatArrayElements") = {6}
         /\ \A k \in 1..Len(trace[t]) : trace[t][k].op \in AccessorOps => k > 6

\* transcribe has returned on the failure path with the array released
C6_Witness ==
  \E t \in Threads :
    /\ Returned(t, "transcribe") /\ FullReturned(t, -1)
    /\ borrowed[t] = {}
    /\ Positions(t, "ReleaseFloatArrayElements") # {}

\* thread t takes a step
Steps(t) == pc'[t] # pc[t] \/ trace'[t] # trace[t]

\* the contexts t's current call was given or has created
Mine(t) == {call[t].arg, call'[t].arg, local[t].ctx, local'[t].ctx} \ {Null}

\* the context thread t holds: the one its handle names, the one its
\* initContext has created and not yet stored, none once its freeContext has
\* freed it
Held(t) ==
  IF pc[t] = "i_finish" THEN {local[t].ctx} \ {Null}
  ELSE IF Returned(t, "initContext") THEN {ret[t].long} \ {Null}
  ELSE IF Returned(t, "freeContext") THEN {}
  ELSE {handle[t]} \ {Null}

\* every engine call of a thread is defined and on the context of its own
\* handle; a successful transcribe returns the transcript of that context
C7_State ==
  \A t \in Threads :
    /\ pc[t] # "crashed"
    /\ \A k \in EnginePositions(t) :
         /\ trace[t][k].valid
         /\ trace[t][k].ctx # Null => trace[t][k].ctx = call[t].arg
    /\ InCall(t, "transcribe") => call[t].arg = handle[t]
    /\ (Returned(t, "transcribe") /\ FullReturned(t, 0)) =>
         ret[t] = RetString(Transcript(segs[call[t].arg]))

\* a step of a thread changes nothing of another thread or of a context
\* that is not its own
C7_Frame ==
  \A t \in Threads :
    Steps(t) =>
      /\ \A u \in Threads \ {t} :
           /\ pc'[u] = pc[u] /\ call'[u] = call[u] /\ ret'[u] = ret[u]
           /\ trace'[u] = trace[u] /\ local'[u] = local[u]
           /\ borrowed'[u] = borrowed[u] /\ handle'[u] = handle[u]
      /\ \A u \in Threads \ {t} : \A a \in Held(u) :
           segs'[a] = segs[a] /\ a \in live'
      /\ \A a \in Ctx \ Mine(t) :
           segs'[a] = segs[a] /\ (a \in live' <=> a \in live)

\* C7: with one disciplined thread per handle and any interleaving, every
\* engine call of a thread is a defined call (no use of a freed context, no
\* race with another thread's whisper_full) on the context of its own handle,
\* a step of a thread changes nothing of another thread, nothing of a context
\* another thread holds and nothing of a context that is not its own, and
\* what a successful transcribe returns is the transcript of the segments of
\* its own context.
C7_Independent == []C7_State /\ [][C7_Frame]_vars

\* two threads are inside whisper_full at the same time, each on its own
\* context
C7_Witness ==
  \E t \in Threads, u \in Threads :
    /\ t # u
    /\ pc[t] = "t_infull" /\ pc[u] = "t_infull"
    /\ local[t].ctx # local[u].ctx

\* the live contexts are the held ones; every engine call is on a live context
C8_State ==
  /\ live = UNION {Held(t) : t \in Threads}
  /\ \A t \in Threads :
       /\ pc[t] # "crashed"
       /\ handle[t] \in {Null} \cup Ctx
       /\ \A u \in Threads \ {t} : Held(t) \cap Held(u) = {}
       /\ pc[t] = "idle" => (handle[t] # Null <=> handle[t] \in live)
       /\ \A k \in EnginePositions(t) : trace[t][k].valid

\* UNINITIALIZED(0) -> READY by a successful initContext, READY ->
\* UNINITIALIZED(0) by freeContext, and no other change of a handle
C8_Transitions ==
  \A t \in Threads :
    handle'[t] # handle[t] =>
      \/ /\ handle[t] = Null
         /\ Returned(t, "initContext")
         /\ handle'[t] = ret[t].long
         /\ handle'[t] \in live
      \/ /\ handle[t] # Null
         /\ Returned(t, "freeContext")
         /\ handle'[t] = Null
         /\ \E k \in Positions(t, "whisper_free") : trace[t][k].ctx = handle[t]

\* C8: for disciplined callers the live contexts are exactly the contexts
\* the callers hold, one per non-zero handle and none shared; a handle
\* changes only from zero to the context a successful initContext returned
\* and from that context to zero after freeContext has called whisper_free
\* on it; and no engine call, whisper_full and whisper_free included, is ever
\* made on a context that is not live, so that a context is freed at most
\* once.
C8_Lifecycle == []C8_State /\ [][C8_Transitions]_vars

\* freeContext has returned and the caller is about to zero its handle, while
\* another caller is READY
C8_Witness ==
  \E t \in Threads, u \in Threads :
    /\ Returned(t, "freeContext")
    /\ handle[t] # Null /\ handle[t] \notin live
    /\ pc[u] = "idle" /\ handle[u] \in live

\* C9: the bridge decides on the value alone: freeContext with a non-zero
\* value has called whisper_free on it once it is past the engine, and
\* transcribe with a non-zero value has called whisper_full on it, whether or
\* not a live context is at that address.
C9_NullCheckOnly ==
  \A t \in Threads :
    /\ (InCall(t, "freeContext") /\ call[t].arg # Null) =>
         /\ pc[t] \in {"f_engine", "returned", "crashed"}
         /\ pc[t] # "f_engine" =>
              /\ Positions(t, "whisper_free") = {1}
              /\ trace[t][1].ctx = call[t].arg
    /\ (InCall(t, "transcribe") /\ call[t].arg # Null) =>
         /\ pc[t] # "returned" \/ trace[t] # <<>>
         /\ pc[t] # "t_full" =>
              /\ Positions(t, "whisper_full") = {4}
              /\ trace[t][4].ctx = call[t].arg

\* a second freeContext with the value of a freed context has called
\* whisper_free on it and returned
C9_Witness ==
  \E t \in Threads :
    /\ Returned(t, "freeContext")
    /\ call[t].arg \in issued
    /\ Positions(t, "whisper_free") = {1}
    /\ ~trace[t][1].valid

\* a transcribe call makes no constructor or free call, and its context is
\* still live when it returns
C10_State ==
  \A t \in Threads :
    InCall(t, "transcribe") =>
      /\ \A k \in 1..Len(trace[t]) :
           trace[t][k].op \notin {"whisper_init_from_file_with_params", "whisper_free"}
      /\ (pc[t] = "returned" /\ \E k \in EnginePositions(t) : trace[t][k].valid)
           => call[t].arg \in live

\* a step of a transcribe call, its entry and the caller's resumption
\* included, leaves the contexts and the handles as they are
C10_Frame ==
  \A t \in Threads :
    ((call[t].op = "transcribe" \/ call'[t].op = "transcribe") /\ Steps(t)) =>
      live' = live /\ issued' = issued /\ handle' = handle

\* C10: no step of a transcribe call, whatever its handle and its outcome,
\* changes the set of live contexts, the set of issued handles or a caller's
\* handle, and the call makes no call of the engine's constructor or free
\* routine; a context that was live for the call is live when it returns.
C10_NoLifecycleChange == []C10_State /\ [][C10_Frame]_vars

\* a successful transcribe on the caller's READY handle has returned a text
\* and the context is still live
C10_Witness ==
  \E t \in Threads :
    /\ Returned(t, "transcribe") /\ FullReturned(t, 0)
    /\ handle[t] = call[t].arg
    /\ call[t].arg \in live
    /\ ret[t].str # EmptyText
====
